---- MODULE Spec2Model ----
(***************************************************************************)
(* A model of the attention building blocks, the caption decoder           *)
(* (transformer_captioning/transformer.py) and the vision transformer      *)
(* (vit_classification/vit.py).                                            *)
(*                                                                         *)
(* Number domain.  Tensors hold integers (a fixed-point grid of unit 1);   *)
(* probabilities are integers in units of 1/ONE.  Every operation of the   *)
(* code that leaves the grid (the quotient by sqrt(D), exp, the quotient   *)
(* of softmax, the 1/(1-p) scaling of dropout) is rounded to the grid where*)
(* it happens, the way the floating-point code rounds to its own grid.     *)
(* Tensors are nested sequences, indexed from 1: x[b][s][c] is the code's  *)
(* x[b-1, s-1, c-1].                                                       *)
(***************************************************************************)
EXTENDS Integers, Sequences, FiniteSets, TLC

VARIABLES
    layer,      \* the module in use: an AttentionLayer, a MultiHeadAttentionLayer, a
                \* PositionalEncoding, a TransformerDecoder or a ViT (kind "none" before
                \* any is constructed)
    training,   \* nn.Module mode flag: TRUE = train (dropout active), FALSE = eval
    rng,        \* state of the random generator that dropout draws from
    ret,        \* outcome of the last completed call (return value or raised error)
    probe,      \* observer: the (features, max_length) input whose sample results are compared
    memo        \* observer: per mode, the captions that the first sample call on the probe
                \* input returned, with the generator state that call started from

vars == <<layer, training, rng, ret, probe, memo>>

----------------------------------------------------------------------------
(* Bounds of the model *)

\* longest sequence (S, T) passed to an attention layer or positional encoding
MaxSeqLen == 2
\* period of the modelled random generator
RngPeriod == 2

\* batch sizes N
BatchSizes == {1, 2}
\* freshly constructed parameters are drawn from the families indexed by InitSeeds,
\* parameters after an optimizer step from those indexed by StepSeeds
InitSeeds == {1}
StepSeeds == {2}
\* input tensors are drawn from families indexed by these patterns
Patterns == {1, 2}

----------------------------------------------------------------------------
(* Values: parameters and inputs are drawn from a fixed table of digits *)

Digits == <<3, 1, 4, 1, 5, 9, 2, 6, 5, 3, 5, 8, 9, 7, 9, 3, 2, 3, 8, 4, 6, 2, 6, 4, 3,
            3, 8, 3, 2, 7, 9, 5, 0, 2, 8, 8, 4, 1, 9, 7, 1, 6, 9, 3, 9, 9, 3, 7, 5, 1>>

\* the k-th value of the table, folded into -2..2
Draw(k) == (Digits[(k % Len(Digits)) + 1] % 5) - 2

----------------------------------------------------------------------------
(* Arithmetic *)

NoTensor == <<>>

\* torch computes every tensor when the statement runs: the value of a tensor expression,
\* with all its elements evaluated
Eager(t) == IF t = t THEN t ELSE NoTensor

RECURSIVE SumSeq(_)
SumSeq(s) == IF s = <<>> THEN 0 ELSE Head(s) + SumSeq(Tail(s))

RECURSIVE MaxOf(_)
MaxOf(s) == IF Len(s) = 1 THEN s[1]
            ELSE LET m == MaxOf(Tail(s)) IN IF s[1] >= m THEN s[1] ELSE m

Dot(a, b) == SumSeq([i \in 1..Len(a) |-> a[i] * b[i]])

Shape3(x) == <<Len(x), Len(x[1]), Len(x[1][1])>>

\* x / math.sqrt(D), rounded down to the grid
ScaleDiv(x, D) ==
    IF x >= 0
    THEN CHOOSE s \in 0..x : s * s * D <= x * x /\ (s + 1) * (s + 1) * D > x * x
    ELSE -(CHOOSE s \in 0..(-x) : s * s * D >= x * x /\ (s = 0 \/ (s - 1) * (s - 1) * D < x * x))

\* exp(d) for d <= 0 in units of 1/1024, underflowing to 0 as the float exp does
ExpTable == <<1024, 377, 139, 51, 19, 7, 3, 1>>
ExpFix(d) == IF -d < Len(ExpTable) THEN ExpTable[1 - d] ELSE 0

\* the probability 1.0
ONE == ExpTable[1]

\* F.softmax(row, dim=-1): exp(x - max) / sum, as torch computes it
Softmax(row) ==
    LET m == MaxOf(row)
        e == Eager([j \in 1..Len(row) |-> ExpFix(row[j] - m)])
        z == SumSeq(e)
    IN  Eager([j \in 1..Len(row) |-> (e[j] * ONE) \div z])

\* rounding of a sum of probability-weighted values back to the grid
RoundDiv(x, u) == (2 * x + u) \div (2 * u)

----------------------------------------------------------------------------
(* torch.nn.Linear and torch.nn.Dropout *)

\* nn.Linear(in_features, out_features): a randomly initialised weight (out x in) and bias
LinearInit(seed, salt, out, in) ==
    [weight |-> Eager([o \in 1..out |-> [i \in 1..in |->
                    Draw(17 * seed + 11 * salt + (o - 1) * in + i)]]),
     bias   |-> Eager([o \in 1..out |-> Draw(29 * seed + 13 * salt + o)])]

\* y = x W^T + b on one vector
Linear(fc, x) == Eager([o \in 1..Len(fc.weight) |-> Dot(fc.weight[o], x) + fc.bias[o]])

\* nn.Linear applied over the last axis of an (N,S,D) tensor
Linear3(fc, x) ==
    Eager([b \in 1..Len(x) |-> [s \in 1..Len(x[b]) |-> Linear(fc, x[b][s])]])

\* whether the generator in state g zeroes element e of the dropout call at `site` (p = 0.1)
Dropped(g, site, e) == (3 * g + 7 * site + e) % 10 = 0

\* nn.Dropout(p=0.1) on one element: identity in eval mode; in train mode the element is
\* zeroed with probability p and scaled by 1/(1-p) = 10/9 otherwise
DropoutAlways(x, train, g, site, e) ==
    IF Dropped(g, site, e) THEN 0 ELSE (x * 10) \div 9

Dropout(x, train, g, site, e) ==
    IF ~train THEN x
    ELSE IF Dropped(g, site, e) THEN 0 ELSE (x * 10) \div 9

\* nn.Dropout over a rank-3 tensor; e is the flat index of the element
Dropout3(x, train, g, site) ==
    Eager([b \in 1..Len(x) |-> [s \in 1..Len(x[b]) |-> [c \in 1..Len(x[b][s]) |->
        Dropout(x[b][s][c], train, g, site,
                ((b - 1) * Len(x[b]) + (s - 1)) * Len(x[b][s]) + (c - 1))]]])

\* nn.Dropout over a rank-4 tensor
Dropout4(x, train, g, site) ==
    Eager([b \in 1..Len(x) |-> [h \in 1..Len(x[b]) |-> [s \in 1..Len(x[b][h]) |->
        [t \in 1..Len(x[b][h][s]) |->
            Dropout(x[b][h][s][t], train, g, site,
                    (((b - 1) * Len(x[b]) + (h - 1)) * Len(x[b][h]) + (s - 1))
                        * Len(x[b][h][s]) + (t - 1))]]]])

\* the generator after a forward pass: it advances only when dropout drew from it
RngAfter(train, g) == IF train THEN (g + 1) % RngPeriod ELSE g

----------------------------------------------------------------------------
(* AttentionLayer *)

big_negative_num == -1000000000

NoMask == <<>>

\* additive_mask = (1 - attn_mask.float()) * big_negative_num
AdditiveMaskSwapped(attn_mask) ==
    Eager([i \in 1..Len(attn_mask) |-> [j \in 1..Len(attn_mask[i]) |->
        attn_mask[i][j] * big_negative_num]])

AdditiveMask(attn_mask) ==
    Eager([i \in 1..Len(attn_mask) |-> [j \in 1..Len(attn_mask[i]) |->
        (1 - attn_mask[i][j]) * big_negative_num]])

\* AttentionLayer.__init__: key_proj and value_proj are deep copies of query_proj
AttentionLayer_init(embed_dim, seed) ==
    LET query_proj == LinearInit(seed, 0, embed_dim, embed_dim)
    IN  [kind |-> "single", embed_dim |-> embed_dim, num_heads |-> 1,
         query_proj |-> query_proj, key_proj |-> query_proj, value_proj |-> query_proj,
         head_proj |-> NoTensor]

\* the outcome of a forward call that raised `err` after computing the given intermediates
AttnRaise(op, err, query, key, value, attn_mask, q, k, v) ==
    [op |-> op, err |-> err,
     query |-> query, key |-> key, value |-> value, attn_mask |-> attn_mask,
     q |-> q, k |-> k, v |-> v, scores |-> NoTensor, additive_mask |-> NoTensor,
     masked |-> NoTensor, probs |-> NoTensor, attn_probs |-> NoTensor, heads |-> NoTensor,
     y |-> NoTensor]

\* the code of AttentionLayer.forward from the projections on (lines 39-68)
AttentionLayer_compute(self, query, key, value, attn_mask, train, g, site) ==
    LET N == Len(value)
        S == Len(query[1])
        T == Len(value[1])
        D == Len(value[1][1])
        q == Linear3(self.query_proj, query)
        k == Linear3(self.query_proj, key)
        v == Linear3(self.query_proj, value)
        scores == Eager([b \in 1..N |-> [s \in 1..S |-> [t \in 1..T |->
                      ScaleDiv(Dot(q[b][s], k[b][t]), D)]]])
        additive_mask == IF attn_mask = NoMask THEN NoTensor ELSE AdditiveMask(attn_mask)
        masked == IF attn_mask = NoMask THEN scores
                  ELSE Eager([b \in 1..N |-> [s \in 1..S |-> [t \in 1..T |->
                           scores[b][s][t] + additive_mask[s][t]]]])
        probs == Eager([b \in 1..N |-> [s \in 1..S |-> Softmax(masked[b][s])]])
        attn_probs == Dropout3(probs, train, g, site)
        y == Eager([b \in 1..N |-> [s \in 1..S |-> [c \in 1..D |->
                 RoundDiv(SumSeq([t \in 1..T |-> attn_probs[b][s][t] * v[b][t][c]]), ONE)]]])
    IN  [op |-> "AttentionLayer.forward", err |-> "none",
         query |-> query, key |-> key, value |-> value, attn_mask |-> attn_mask,
         q |-> q, k |-> k, v |-> v, scores |-> scores, additive_mask |-> additive_mask,
         masked |-> masked, probs |-> probs, attn_probs |-> attn_probs, heads |-> NoTensor,
         y |-> y]

\* a forward that projects before it compares the key and value shapes
AttentionLayer_forward_late_assert(self, query, key, value, attn_mask, train, g, site) ==
    IF Shape3(key) # Shape3(value)
    THEN AttnRaise("AttentionLayer.forward", "AssertionError", query, key, value, attn_mask,
                   Linear3(self.query_proj, query), Linear3(self.query_proj, key),
                   Linear3(self.query_proj, value))
    ELSE AttentionLayer_compute(self, query, key, value, attn_mask, train, g, site)

\* AttentionLayer.forward
AttentionLayer_forward(self, query, key, value, attn_mask, train, g, site) ==
    IF Shape3(key) # Shape3(value)
    THEN AttnRaise("AttentionLayer.forward", "AssertionError", query, key, value, attn_mask,
                   NoTensor, NoTensor, NoTensor)
    ELSE AttentionLayer_compute(self, query, key, value, attn_mask, train, g, site)

----------------------------------------------------------------------------
(* MultiHeadAttentionLayer *)

\* the elements of a contiguous (N,S,D) tensor in memory order
Flatten3(x) ==
    LET N == Len(x)
        S == Len(x[1])
        D == Len(x[1][1])
    IN  Eager([f \in 1..(N * S * D) |->
            x[((f - 1) \div (S * D)) + 1][(((f - 1) \div D) % S) + 1][((f - 1) % D) + 1]])

\* the elements of a contiguous (N,S,H,C) tensor in memory order
Flatten4(x) ==
    LET N == Len(x)
        S == Len(x[1])
        H == Len(x[1][1])
        C == Len(x[1][1][1])
    IN  Eager([f \in 1..(N * S * H * C) |->
            x[((f - 1) \div (S * H * C)) + 1][(((f - 1) \div (H * C)) % S) + 1]
             [(((f - 1) \div C) % H) + 1][((f - 1) % C) + 1]])

\* tensor.view(N, S, H, C) of a contiguous buffer
View4(flat, N, S, H, C) ==
    Eager([b \in 1..N |-> [s \in 1..S |-> [h \in 1..H |-> [c \in 1..C |->
        flat[(((b - 1) * S + (s - 1)) * H + (h - 1)) * C + c]]]]])

\* tensor.view(N, S, D) of a contiguous buffer
View3(flat, N, S, D) ==
    Eager([b \in 1..N |-> [s \in 1..S |-> [d \in 1..D |->
        flat[((b - 1) * S + (s - 1)) * D + d]]]])

\* tensor.transpose(1, 2) of a rank-4 tensor
Transpose12(x) ==
    Eager([b \in 1..Len(x) |-> [j \in 1..Len(x[b][1]) |-> [i \in 1..Len(x[b]) |->
        x[b][i][j]]]])

\* a split that views the buffer as (N,H,L,D/H) without transposing
SplitHeads_view_only(x, N, L, H, Dh) == View4(Flatten3(x), N, H, L, Dh)

\* head_proj(x).view(N, L, H, D//H).transpose(1, 2): (N,L,D) -> (N,H,L,D/H)
SplitHeads(x, N, L, H, Dh) == Transpose12(View4(Flatten3(x), N, L, H, Dh))

\* y.transpose(1, 2).contiguous().view(N, S, D): (N,H,S,D/H) -> (N,S,D)
MergeHeads(y, N, S, D) == View3(Flatten4(Transpose12(y)), N, S, D)

\* the constructor without its divisibility assertion
MultiHeadAttentionLayer_init_unchecked(embed_dim, num_heads, seed) ==
    [err |-> "none",
     obj |-> [kind |-> "multi", embed_dim |-> embed_dim, num_heads |-> num_heads,
              query_proj |-> LinearInit(seed, 0, embed_dim, embed_dim),
              key_proj |-> LinearInit(seed, 0, embed_dim, embed_dim),
              value_proj |-> LinearInit(seed, 0, embed_dim, embed_dim),
              head_proj |-> LinearInit(seed, 1, embed_dim, embed_dim)]]

\* MultiHeadAttentionLayer.__init__: the assertion raises out of the constructor,
\* so no object is returned
MultiHeadAttentionLayer_init(embed_dim, num_heads, seed) ==
    IF embed_dim % num_heads # 0
    THEN [err |-> "AssertionError", obj |-> [kind |-> "none"]]
    ELSE MultiHeadAttentionLayer_init_unchecked(embed_dim, num_heads, seed)

\* the code of MultiHeadAttentionLayer.forward from the projections on (lines 100-133)
MultiHeadAttentionLayer_compute(self, query, key, value, attn_mask, train, g, site) ==
    LET H == self.num_heads
        N == Len(value)
        S == Len(query[1])
        T == Len(value[1])
        D == Len(value[1][1])
        Dh == D \div H
    IN  IF N * S * H * Dh # Len(query) * S * D \/ N * T * H * Dh # N * T * D
        THEN \* .view(N, S, H, D//H): shape is invalid for the input's size
             AttnRaise("MultiHeadAttentionLayer.forward", "RuntimeError", query, key, value,
                       attn_mask, NoTensor, NoTensor, NoTensor)
        ELSE
        LET q == SplitHeads(Linear3(self.head_proj, query), N, S, H, Dh)
            k == SplitHeads(Linear3(self.head_proj, key), N, T, H, Dh)
            v == SplitHeads(Linear3(self.head_proj, value), N, T, H, Dh)
            scores == Eager([b \in 1..N |-> [h \in 1..H |-> [s \in 1..S |-> [t \in 1..T |->
                          ScaleDiv(Dot(q[b][h][s], k[b][h][t]), D)]]]])
            additive_mask == IF attn_mask = NoMask THEN NoTensor
                             ELSE AdditiveMask(attn_mask)
            masked == IF attn_mask = NoMask THEN scores
                      ELSE Eager([b \in 1..N |-> [h \in 1..H |-> [s \in 1..S |->
                               [t \in 1..T |-> scores[b][h][s][t] + additive_mask[s][t]]]]])
            probs == Eager([b \in 1..N |-> [h \in 1..H |-> [s \in 1..S |->
                         Softmax(masked[b][h][s])]]])
            attn_probs == Dropout4(probs, train, g, site)
            y == Eager([b \in 1..N |-> [h \in 1..H |-> [s \in 1..S |-> [c \in 1..Dh |->
                     RoundDiv(SumSeq([t \in 1..T |-> attn_probs[b][h][s][t] * v[b][h][t][c]]),
                              ONE)]]]])
        IN  [op |-> "MultiHeadAttentionLayer.forward", err |-> "none",
             query |-> query, key |-> key, value |-> value, attn_mask |-> attn_mask,
             q |-> q, k |-> k, v |-> v, scores |-> scores, additive_mask |-> additive_mask,
             masked |-> masked, probs |-> probs, attn_probs |-> attn_probs,
             heads |-> y, y |-> MergeHeads(y, N, S, D)]

\* MultiHeadAttentionLayer.forward
MultiHeadAttentionLayer_forward(self, query, key, value, attn_mask, train, g, site) ==
    IF Shape3(key) # Shape3(value)
    THEN AttnRaise("MultiHeadAttentionLayer.forward", "AssertionError", query, key, value,
                   attn_mask, NoTensor, NoTensor, NoTensor)
    ELSE MultiHeadAttentionLayer_compute(self, query, key, value, attn_mask, train, g, site)

----------------------------------------------------------------------------
(* PositionalEncoding *)

\* nn.Embedding(num_embeddings, embedding_dim): a randomly initialised lookup table
EmbeddingInit(seed, salt, num_embeddings, embedding_dim) ==
    Eager([p \in 1..num_embeddings |-> [c \in 1..embedding_dim |->
        Draw(31 * seed + 7 * salt + (p - 1) * embedding_dim + c)]])

\* PositionalEncoding.__init__
PositionalEncoding_init(embed_dim, max_len, seed) ==
    [kind |-> "pe", embed_dim |-> embed_dim, max_len |-> max_len,
     encoding |-> EmbeddingInit(seed, 0, max_len, embed_dim)]

\* the lookup self.encoding(positions), which clamps instead of raising
EmbeddingLookup_clamped(table, positions) ==
    [err |-> "none",
     rows |-> Eager([i \in 1..Len(positions) |->
                  table[IF positions[i] >= Len(table) THEN Len(table) ELSE positions[i] + 1]])]

\* nn.Embedding.forward(indices): every index must be below num_embeddings
EmbeddingLookup(table, positions) ==
    IF \E i \in 1..Len(positions) : positions[i] < 0 \/ positions[i] >= Len(table)
    THEN [err |-> "IndexError", rows |-> NoTensor]
    ELSE [err |-> "none",
          rows |-> Eager([i \in 1..Len(positions) |-> table[positions[i] + 1]])]

\* torch.arange(S)
Arange(S) == Eager([i \in 1..S |-> i - 1])

\* PositionalEncoding.forward
PositionalEncoding_forward(self, x, train, g, site) ==
    LET S == Len(x[1])
        positions == Arange(S)
        position_encoded_x == EmbeddingLookup(self.encoding, positions)
    IN  IF position_encoded_x.err # "none"
        THEN [op |-> "PositionalEncoding.forward", err |-> position_encoded_x.err,
              x |-> x, sum |-> NoTensor, output |-> NoTensor]
        ELSE LET sum == Eager([b \in 1..Len(x) |-> [s \in 1..S |-> [c \in 1..Len(x[b][s]) |->
                            x[b][s][c] + position_encoded_x.rows[s][c]]]])
             IN  [op |-> "PositionalEncoding.forward", err |-> "none",
                  x |-> x, sum |-> sum, output |-> Dropout3(sum, train, g, site)]

----------------------------------------------------------------------------
(* Inputs of the building blocks *)

\* embedding dimensions and head counts the constructors are called with
EmbedDims == {4, 10}
HeadCounts == {1, 2, 3, 4}
\* embedding dimensions forward passes are run with
ForwardDims == {4}

\* an (N,S,D) input tensor of the family `pat`
Tensor(pat, N, S, D) ==
    Eager([b \in 1..N |-> [s \in 1..S |-> [c \in 1..D |->
        Draw(23 * pat + ((b - 1) * S + (s - 1)) * D + c)]]])

\* torch.ones(S, T, dtype=torch.bool)
Ones(S, T) == Eager([i \in 1..S |-> [j \in 1..T |-> 1]])

\* tensor.tril(diagonal=d): the entries above the d-th diagonal are zeroed
Tril(m, d) ==
    Eager([i \in 1..Len(m) |-> [j \in 1..Len(m[i]) |-> IF j - i <= d THEN m[i][j] ELSE 0]])

\* tensor.triu(diagonal=d): the entries below the d-th diagonal are zeroed
Triu(m, d) ==
    Eager([i \in 1..Len(m) |-> [j \in 1..Len(m[i]) |-> IF j - i >= d THEN m[i][j] ELSE 0]])

TrilMask(S, T, d) == Tril(Ones(S, T), d)
TriuMask(S, T, d) == Triu(Ones(S, T), d)

\* the (S,T) masks a caller passes: banded 0/1 matrices, among them all-ones, all-zeros,
\* the causal mask, and masks with rows that allow nothing
Masks(S, T) ==
    {TrilMask(S, T, d) : d \in (-S)..(T - 1)} \cup {TriuMask(S, T, d) : d \in (1 - S)..T}

\* the shapes of `value` a caller passes next to a key of shape (N,T,D)
ValueShapes(N, T, D) == {<<N, T, D>>, <<N + 1, T, D>>, <<N, T + 1, D>>, <<N, T, D + 1>>}

\* the masks passed with a value of shape vs
MasksFor(N, S, T, D, vs) ==
    IF vs = <<N, T, D>> THEN Masks(S, T) \cup {NoMask} ELSE {NoMask, TrilMask(S, T, 0)}

----------------------------------------------------------------------------
(* Operations on the building blocks *)

NoLayer == [kind |-> "none"]
NoProbe == <<>>
NoMemo == <<>>

\* no call is in progress and no outcome is waiting for the caller
NoOutcome == [op |-> "none", err |-> "none"]
Idle == ret = NoOutcome

\* AttentionLayer(embed_dim)
NewAttentionLayer ==
    /\ Idle
    /\ \E D \in ForwardDims, seed \in InitSeeds :
        /\ layer' = AttentionLayer_init(D, seed)
        /\ ret' = [op |-> "AttentionLayer.__init__", err |-> "none"]
        /\ UNCHANGED <<probe, memo, training, rng>>

\* MultiHeadAttentionLayer(embed_dim, num_heads): on an AssertionError nothing is bound
NewMultiHeadAttentionLayer ==
    /\ Idle
    /\ \E D \in EmbedDims, H \in HeadCounts, seed \in InitSeeds :
        LET r == MultiHeadAttentionLayer_init(D, H, seed)
        IN  /\ layer' = IF r.err = "none" THEN r.obj ELSE layer
            /\ ret' = [op |-> "MultiHeadAttentionLayer.__init__", err |-> r.err,
                       embed_dim |-> D, num_heads |-> H]
            /\ UNCHANGED <<probe, memo, training, rng>>

\* PositionalEncoding(embed_dim, max_len=max_len)
NewPositionalEncoding ==
    /\ Idle
    /\ \E D \in ForwardDims, max_len \in 1..MaxSeqLen, seed \in InitSeeds :
        /\ layer' = PositionalEncoding_init(D, max_len, seed)
        /\ ret' = [op |-> "PositionalEncoding.__init__", err |-> "none"]
        /\ UNCHANGED <<probe, memo, training, rng>>

\* one step of the external optimizer: it updates the parameters that receive a gradient,
\* which are those the forward pass uses
OptimizerStep ==
    /\ Idle
    /\ \E seed \in StepSeeds :
        /\ layer.kind \in {"single", "multi"}
        /\ layer' = IF layer.kind = "single"
                    THEN [layer EXCEPT !.query_proj =
                             LinearInit(seed, 2, layer.embed_dim, layer.embed_dim)]
                    ELSE [layer EXCEPT !.head_proj =
                             LinearInit(seed, 3, layer.embed_dim, layer.embed_dim)]
        /\ ret' = [op |-> "optimizer.step", err |-> "none"]
        /\ UNCHANGED <<probe, memo, training, rng>>

\* nn.Module.train()
Train ==
    /\ Idle
    /\ layer.kind # "none"
    /\ training' = TRUE
    /\ ret' = [op |-> "train", err |-> "none"]
    /\ UNCHANGED <<probe, memo, layer, rng>>

\* nn.Module.eval()
Eval ==
    /\ Idle
    /\ layer.kind # "none"
    /\ training' = FALSE
    /\ ret' = [op |-> "eval", err |-> "none"]
    /\ UNCHANGED <<probe, memo, layer, rng>>

\* layer(query, key, value, attn_mask) on an AttentionLayer
CallAttentionLayer ==
    /\ Idle
    /\ layer.kind = "single"
    /\ \E N \in BatchSizes, S \in 1..MaxSeqLen, T \in 1..MaxSeqLen, pat \in Patterns :
       \E vs \in ValueShapes(N, T, layer.embed_dim) :
       \E attn_mask \in MasksFor(N, S, T, layer.embed_dim, vs) :
          LET r == AttentionLayer_forward(layer,
                       Tensor(pat, N, S, layer.embed_dim),
                       Tensor(pat + 1, N, T, layer.embed_dim),
                       Tensor(pat + 2, vs[1], vs[2], vs[3]),
                       attn_mask, training, rng, 0)
          IN  /\ ret' = r
              /\ rng' = IF r.err = "none" THEN RngAfter(training, rng) ELSE rng
    /\ UNCHANGED <<probe, memo, layer, training>>

\* layer(query, key, value, attn_mask) on a MultiHeadAttentionLayer
CallMultiHeadAttentionLayer ==
    /\ Idle
    /\ layer.kind = "multi"
    /\ layer.embed_dim \in ForwardDims
    /\ \E N \in BatchSizes, S \in 1..MaxSeqLen, T \in 1..MaxSeqLen, pat \in Patterns :
       \E vs \in ValueShapes(N, T, layer.embed_dim) :
       \E attn_mask \in MasksFor(N, S, T, layer.embed_dim, vs) :
          LET r == MultiHeadAttentionLayer_forward(layer,
                       Tensor(pat, N, S, layer.embed_dim),
                       Tensor(pat + 1, N, T, layer.embed_dim),
                       Tensor(pat + 2, vs[1], vs[2], vs[3]),
                       attn_mask, training, rng, 0)
          IN  /\ ret' = r
              /\ rng' = IF r.err = "none" THEN RngAfter(training, rng) ELSE rng
    /\ UNCHANGED <<probe, memo, layer, training>>

\* layer(x) on a PositionalEncoding
CallPositionalEncoding ==
    /\ Idle
    /\ layer.kind = "pe"
    /\ \E N \in BatchSizes, S \in 1..MaxSeqLen, pat \in Patterns :
          LET r == PositionalEncoding_forward(layer, Tensor(pat, N, S, layer.embed_dim),
                                              training, rng, 0)
          IN  /\ ret' = r
              /\ rng' = IF r.err = "none" THEN RngAfter(training, rng) ELSE rng
    /\ UNCHANGED <<probe, memo, layer, training>>

\* the call returns (or its exception propagates) to the caller, which goes on to its
\* next statement
ReturnToCaller ==
    /\ ~Idle
    /\ ret' = NoOutcome
    /\ UNCHANGED <<probe, memo, layer, training, rng>>

\* the state after import: no object yet; a new nn.Module is in train mode
InitBlocks ==
    /\ layer = NoLayer
    /\ training = TRUE
    /\ rng = 0
    /\ ret = NoOutcome
    /\ probe = NoProbe
    /\ memo = NoMemo

NextBlocks ==
    \/ NewAttentionLayer
    \/ NewMultiHeadAttentionLayer
    \/ NewPositionalEncoding
    \/ OptimizerStep
    \/ Train
    \/ Eval
    \/ CallAttentionLayer
    \/ CallMultiHeadAttentionLayer
    \/ CallPositionalEncoding
    \/ ReturnToCaller

SpecBlocks == InitBlocks /\ [][NextBlocks]_vars

----------------------------------------------------------------------------
(* Properties of the building blocks, checked under SpecBlocks *)

IsAttentionCall == ret.op \in {"AttentionLayer.forward", "MultiHeadAttentionLayer.forward"}

\* C5: a MultiHeadAttentionLayer whose embedding dimension is not divisible by its head
\* count is refused by the constructor (AssertionError, e.g. D=10, H=3), so no such object
\* exists, and no forward call ever fails on the head split.
C5_IndivisibleDimFailsAtConstruction ==
    /\ layer.kind = "multi" => layer.embed_dim % layer.num_heads = 0
    /\ ret.op = "MultiHeadAttentionLayer.__init__" =>
          (ret.err = "AssertionError" <=> ret.embed_dim % ret.num_heads # 0)
    /\ ret.op = "MultiHeadAttentionLayer.forward" => ret.err # "RuntimeError"

\* C5 witness: MultiHeadAttentionLayer(10, 3) was attempted and raised
C5_Witness ==
    /\ ret.op = "MultiHeadAttentionLayer.__init__"
    /\ ret.embed_dim = 10 /\ ret.num_heads = 3
    /\ ret.err = "AssertionError"

\* C6: in AttentionLayer.forward and MultiHeadAttentionLayer.forward a call whose key and
\* value shapes differ raises before any projection, score, softmax or output is computed,
\* and returns no output.
C6_KeyValueMismatchFailsFast ==
    (IsAttentionCall /\ Shape3(ret.key) # Shape3(ret.value)) =>
        /\ ret.err = "AssertionError"
        /\ ret.q = NoTensor /\ ret.k = NoTensor /\ ret.v = NoTensor
        /\ ret.scores = NoTensor /\ ret.masked = NoTensor
        /\ ret.probs = NoTensor /\ ret.attn_probs = NoTensor
        /\ ret.y = NoTensor

\* C6 witness: a single-head call with a value one position longer than the key raised
C6_Witness ==
    /\ ret.op = "AttentionLayer.forward"
    /\ Len(ret.value[1]) = Len(ret.key[1]) + 1
    /\ ret.err = "AssertionError"

\* the rows of scores and probabilities of an attention call, each with its query position
ScoreRows(r) ==
    IF r.op = "AttentionLayer.forward"
    THEN {[s |-> s, scores |-> r.scores[b][s], masked |-> r.masked[b][s],
           probs |-> r.probs[b][s], attn_probs |-> r.attn_probs[b][s]] :
             b \in 1..Len(r.scores), s \in 1..Len(r.query[1])}
    ELSE {[s |-> s, scores |-> r.scores[b][h][s], masked |-> r.masked[b][h][s],
           probs |-> r.probs[b][h][s], attn_probs |-> r.attn_probs[b][h][s]] :
             b \in 1..Len(r.scores), h \in 1..Len(r.scores[1]), s \in 1..Len(r.query[1])}

\* C7: with a mask, the bias added to score (i,j) before softmax is -1e9 exactly where
\* mask(i,j) = 0 and 0 exactly where mask(i,j) = 1; every row of the mask that allows at
\* least one key has a probability row that sums to 1 (within the rounding of one grid unit
\* per key) and gives weight 0 to every disallowed key.
C7_MaskBiasAndProbabilities ==
    (IsAttentionCall /\ ret.err = "none" /\ ret.attn_mask # NoMask) =>
        \A row \in ScoreRows(ret) :
            LET T == Len(row.scores)
                allowed == {j \in 1..T : ret.attn_mask[row.s][j] = 1}
            IN  /\ \A j \in 1..T :
                      row.masked[j] - row.scores[j] =
                          IF ret.attn_mask[row.s][j] = 0 THEN -1000000000 ELSE 0
                /\ \A j \in 1..T :
                      ret.additive_mask[row.s][j] = row.masked[j] - row.scores[j]
                /\ allowed # {} =>
                      /\ SumSeq(row.probs) <= ONE
                      /\ SumSeq(row.probs) > ONE - T
                      /\ \A j \in (1..T) \ allowed :
                            row.probs[j] = 0 /\ row.attn_probs[j] = 0

\* C7 witness: a call with the causal 2x2 mask returned; its first row disallows key 2
C7_Witness ==
    /\ IsAttentionCall /\ ret.err = "none"
    /\ ret.attn_mask = <<<<1, 0>>, <<1, 1>>>>

\* C11: in MultiHeadAttentionLayer.forward, for every head count H dividing D, head h of
\* the split query, key and value holds channels h*(D/H) .. (h+1)*(D/H)-1 of each position
\* of the projected input, the returned channel c of query position s is channel c mod (D/H)
\* of head c div (D/H) at position s of the per-head outputs, and the output has the
\* query's shape (N,S,D).
C11_HeadSplitMergeReindexChannels ==
    (ret.op = "MultiHeadAttentionLayer.forward" /\ ret.err = "none") =>
        LET H == layer.num_heads
            D == layer.embed_dim
            Dh == D \div H
            N == Len(ret.query)
            S == Len(ret.query[1])
            T == Len(ret.key[1])
            pq == Linear3(layer.head_proj, ret.query)
            pk == Linear3(layer.head_proj, ret.key)
            pv == Linear3(layer.head_proj, ret.value)
        IN  /\ D % H = 0
            /\ Len(ret.q) = N /\ Len(ret.k) = N /\ Len(ret.v) = N /\ Len(ret.heads) = N
            /\ \A b \in 1..N :
                  /\ Len(ret.q[b]) = H /\ Len(ret.k[b]) = H /\ Len(ret.v[b]) = H
                  /\ Len(ret.heads[b]) = H
                  /\ \A h \in 0..(H - 1) :
                        /\ Len(ret.q[b][h + 1]) = S
                        /\ Len(ret.k[b][h + 1]) = T /\ Len(ret.v[b][h + 1]) = T
                        /\ \A s \in 1..S :
                              ret.q[b][h + 1][s] = [c \in 1..Dh |-> pq[b][s][h * Dh + c]]
                        /\ \A t \in 1..T :
                              /\ ret.k[b][h + 1][t] = [c \in 1..Dh |-> pk[b][t][h * Dh + c]]
                              /\ ret.v[b][h + 1][t] = [c \in 1..Dh |-> pv[b][t][h * Dh + c]]
            /\ Shape3(ret.y) = <<N, S, D>>
            /\ \A b \in 1..N, s \in 1..S :
                  ret.y[b][s] = [c \in 1..D |->
                                   ret.heads[b][((c - 1) \div Dh) + 1][s][((c - 1) % Dh) + 1]]

\* C11 witness: a call with two heads and two query positions returned, where position 2 of
\* head 1 differs from position 1 of head 2, so that the order of the head and position axes
\* shows in the result
C11_Witness ==
    /\ ret.op = "MultiHeadAttentionLayer.forward" /\ ret.err = "none"
    /\ layer.num_heads = 2
    /\ Len(ret.query[1]) = 2
    /\ ret.q[1][1][2] # ret.q[1][2][1]
    /\ ret.heads[1][1][2] # ret.heads[1][2][1]

\* the projections of a single-head call as the claim describes them: each input through
\* its own projection
SeparateProjections(self, r) ==
    /\ r.q = Linear3(self.query_proj, r.query)
    /\ r.k = Linear3(self.key_proj, r.key)
    /\ r.v = Linear3(self.value_proj, r.value)

\* C8: AttentionLayer.forward projects the query by query_proj, the key by key_proj and
\* the value by value_proj.
C8_SeparateProjections ==
    (ret.op = "AttentionLayer.forward" /\ ret.err = "none") =>
        SeparateProjections(layer, ret)

\* C10: PositionalEncoding.forward on a sequence of length S <= max_len adds table row p to
\* position p of every batch element (and returns that sum unchanged in eval mode); with
\* S > max_len it raises IndexError and returns nothing.
C10_PositionalEncodingAddsRowsOrFails ==
    ret.op = "PositionalEncoding.forward" =>
        LET S == Len(ret.x[1])
        IN  IF S <= layer.max_len
            THEN /\ ret.err = "none"
                 /\ \A b \in 1..Len(ret.x), p \in 0..(S - 1), c \in 1..layer.embed_dim :
                       ret.sum[b][p + 1][c] = ret.x[b][p + 1][c] + layer.encoding[p + 1][c]
                 /\ ~training => ret.output = ret.sum
            ELSE /\ ret.err = "IndexError"
                 /\ ret.output = NoTensor

\* C10 witness: a sequence of two positions was passed to a table of one row, and raised
C10_Witness ==
    /\ ret.op = "PositionalEncoding.forward"
    /\ Len(ret.x[1]) = 2 /\ layer.max_len = 1
    /\ ret.err = "IndexError"

----------------------------------------------------------------------------
(* nn.LayerNorm, nn.ReLU and the residual blocks *)

Zeros(n) == Eager([i \in 1..n |-> 0])

\* nn.LayerNorm(normalized_shape=input_dim, elementwise_affine=True): weight 1, bias 0
LayerNormInit(input_dim) ==
    [weight |-> Eager([i \in 1..input_dim |-> 1]), bias |-> Zeros(input_dim)]

\* (x - mean) / sqrt(var + eps) of one channel, rounded to the nearest grid point, from
\* c = D * (x - mean) and Q = the sum of the squares of c over the D channels
Normalized(c, Q, D) ==
    IF Q = 0 \/ c = 0 THEN 0
    ELSE LET t == CHOOSE u \in 0..D :
                      /\ u = 0 \/ (2 * u - 1) * (2 * u - 1) * Q <= 4 * c * c * D
                      /\ 4 * c * c * D < (2 * u + 1) * (2 * u + 1) * Q
         IN  IF c > 0 THEN t ELSE -t

\* nn.LayerNorm over the channels of one position
LayerNorm(ln, x) ==
    LET D == Len(x)
        sum == SumSeq(x)
        c == Eager([i \in 1..D |-> D * x[i] - sum])
        Q == SumSeq([i \in 1..D |-> c[i] * c[i]])
    IN  Eager([i \in 1..D |-> Normalized(c[i], Q, D) * ln.weight[i] + ln.bias[i]])

\* nn.LayerNorm over an (N,S,D) tensor: per position
LayerNorm3(ln, x) ==
    Eager([b \in 1..Len(x) |-> [s \in 1..Len(x[b]) |-> LayerNorm(ln, x[b][s])]])

\* x + seq
Add3(x, seq) ==
    Eager([b \in 1..Len(x) |-> [s \in 1..Len(x[b]) |-> [c \in 1..Len(x[b][s]) |->
        x[b][s][c] + seq[b][s][c]]]])

\* nn.ReLU
ReLU(x) == IF x > 0 THEN x ELSE 0

\* Module.apply(_init_weights) on an nn.Linear: the weight is drawn anew, the bias zeroed
init_weights_Linear(fc) == [fc EXCEPT !.bias = Zeros(Len(fc.bias))]

\* SelfAttentionBlock.__init__ followed by _init_weights
SelfAttentionBlock_init(input_dim, num_heads, seed) ==
    LET a == MultiHeadAttentionLayer_init(input_dim, num_heads, seed).obj
    IN  [self_attn |-> [a EXCEPT !.head_proj = init_weights_Linear(a.head_proj),
                                 !.query_proj = init_weights_Linear(a.query_proj),
                                 !.key_proj = init_weights_Linear(a.key_proj),
                                 !.value_proj = init_weights_Linear(a.value_proj)],
         layernorm |-> LayerNormInit(input_dim)]

\* CrossAttentionBlock.__init__ followed by _init_weights
CrossAttentionBlock_init(input_dim, num_heads, seed) ==
    LET a == MultiHeadAttentionLayer_init(input_dim, num_heads, seed).obj
    IN  [cross_attn |-> [a EXCEPT !.head_proj = init_weights_Linear(a.head_proj),
                                  !.query_proj = init_weights_Linear(a.query_proj),
                                  !.key_proj = init_weights_Linear(a.key_proj),
                                  !.value_proj = init_weights_Linear(a.value_proj)],
         layernorm |-> LayerNormInit(input_dim)]

\* FeedForwardBlock.__init__ followed by _init_weights
FeedForwardBlock_init(input_dim, dim_ff, seed) ==
    [fc1 |-> init_weights_Linear(LinearInit(seed, 4, dim_ff, input_dim)),
     fc2 |-> init_weights_Linear(LinearInit(seed, 5, input_dim, dim_ff)),
     layernorm |-> LayerNormInit(input_dim)]

\* the code of the two attention blocks after the attention call: dropout, residual
\* connection and layer normalization; attn is the outcome of the attention call, which
\* is kept next to the block's output x
AttentionBlock_residual(self, seq, attn, train, g, site) ==
    [attn |-> attn,
     x |-> LayerNorm3(self.layernorm, Add3(Dropout3(attn.y, train, g, site + 1), seq))]

\* SelfAttentionBlock.forward with the outcome of its attention call;
\* the dropout calls are sites `site` and `site + 1`
SelfAttentionBlock_steps(self, seq, mask, train, g, site) ==
    AttentionBlock_residual(self, seq,
        MultiHeadAttentionLayer_forward(self.self_attn, seq, seq, seq, mask, train, g, site),
        train, g, site)

\* SelfAttentionBlock.forward
SelfAttentionBlock_forward(self, seq, mask, train, g, site) ==
    SelfAttentionBlock_steps(self, seq, mask, train, g, site).x

\* CrossAttentionBlock.forward with the outcome of its attention call
CrossAttentionBlock_steps(self, seq, cond, train, g, site) ==
    AttentionBlock_residual(self, seq,
        MultiHeadAttentionLayer_forward(self.cross_attn, seq, cond, cond, NoMask, train, g,
                                        site),
        train, g, site)

\* CrossAttentionBlock.forward
CrossAttentionBlock_forward(self, seq, cond, train, g, site) ==
    CrossAttentionBlock_steps(self, seq, cond, train, g, site).x

\* self.mlp: Linear, ReLU, Dropout, Linear on an (N,S,D) tensor
Mlp(self, seq, train, g, site) ==
    LET h0 == Linear3(self.fc1, seq)
        h1 == Eager([b \in 1..Len(h0) |-> [s \in 1..Len(h0[b]) |->
                  [c \in 1..Len(h0[b][s]) |-> ReLU(h0[b][s][c])]]])
        h2 == Dropout3(h1, train, g, site)
    IN  Linear3(self.fc2, h2)

\* FeedForwardBlock.forward
FeedForwardBlock_forward(self, seq, train, g, site) ==
    LET x0 == Mlp(self, seq, train, g, site)
        x1 == Dropout3(x0, train, g, site + 1)
        x2 == Add3(x1, seq)
    IN  LayerNorm3(self.layernorm, x2)

----------------------------------------------------------------------------
(* DecoderLayer and TransformerDecoder *)

\* the hidden width of the feed-forward blocks (2048 in the code)
dim_feedforward == 4

\* DecoderLayer.__init__
DecoderLayer_init(input_dim, num_heads, seed) ==
    [self_atn_block |-> SelfAttentionBlock_init(input_dim, num_heads, seed),
     cross_atn_block |-> CrossAttentionBlock_init(input_dim, num_heads, seed + 1),
     feedforward_block |-> FeedForwardBlock_init(input_dim, dim_feedforward, seed + 2)]

\* DecoderLayer.forward, line 240: the feed-forward block on the output of the second block;
\* first and second are the outcomes of the two blocks applied before it
DecoderLayer_feedforward(self, seq, cond, mask, first, second, train, g, site) ==
    [seq |-> seq, cond |-> cond, mask |-> mask,
     first |-> first, second |-> second, ffn_seq |-> second.x,
     out |-> FeedForwardBlock_forward(self.feedforward_block, second.x, train, g, site + 5)]

\* a layer that applies the cross-attention block before the self-attention block
DecoderLayer_cross_first(self, seq, cond, mask, first, train, g, site) ==
    DecoderLayer_feedforward(self, seq, cond, mask, first,
        SelfAttentionBlock_steps(self.self_atn_block, first.x, mask, train, g, site + 3),
        train, g, site)

DecoderLayer_steps_cross_first(self, seq, cond, mask, train, g, site) ==
    DecoderLayer_cross_first(self, seq, cond, mask,
        CrossAttentionBlock_steps(self.cross_atn_block, seq, cond, train, g, site + 1),
        train, g, site)

\* DecoderLayer.forward, lines 239-240: the cross-attention block on the output of the
\* self-attention block, then the feed-forward block
DecoderLayer_cross(self, seq, cond, mask, first, train, g, site) ==
    DecoderLayer_feedforward(self, seq, cond, mask, first,
        CrossAttentionBlock_steps(self.cross_atn_block, first.x, cond, train, g, site + 3),
        train, g, site)

\* DecoderLayer.forward with the outcome of each of its blocks; its dropout calls are the
\* sites site+1 .. site+6
DecoderLayer_steps(self, seq, cond, mask, train, g, site) ==
    DecoderLayer_cross(self, seq, cond, mask,
        SelfAttentionBlock_steps(self.self_atn_block, seq, mask, train, g, site + 1),
        train, g, site)

\* DecoderLayer.forward
DecoderLayer_forward(self, seq, cond, mask, train, g, site) ==
    DecoderLayer_steps(self, seq, cond, mask, train, g, site).out

\* TransformerDecoder.__init__
TransformerDecoder_init(word_to_idx, input_dim, embed_dim, num_heads, num_layers, max_length, seed) ==
    LET vocab_size == Cardinality(DOMAIN word_to_idx)
    IN  [kind |-> "decoder",
         vocab_size |-> vocab_size,
         null |-> word_to_idx["<NULL>"],
         start |-> word_to_idx["<START>"],
         embed_dim |-> embed_dim, num_heads |-> num_heads, max_len |-> max_length,
         layers |-> Eager([l \in 1..num_layers |->
                               DecoderLayer_init(embed_dim, num_heads, seed + 3 * l)]),
         caption_embedding |-> EmbeddingInit(seed, 1, vocab_size, embed_dim),
         positional_encoding |-> PositionalEncoding_init(embed_dim, max_length, seed + 1),
         feature_embedding |-> init_weights_Linear(LinearInit(seed, 6, embed_dim, input_dim)),
         score_projection |-> init_weights_Linear(LinearInit(seed, 7, vocab_size, embed_dim))]

\* a mask builder that lets every position see every position
get_causal_mask_full(self, len) == Ones(len, len)

\* a mask builder that leaves out the diagonal
get_causal_mask_strict(self, len) == Tril(Ones(len, len), -1)

\* TransformerDecoder.get_causal_mask
get_causal_mask(self, len) == Tril(Ones(len, len), 0)

\* the rows self.caption_embedding(captions) of an (N,T) token tensor
CaptionLookup(self, captions) ==
    LET rows == Eager([b \in 1..Len(captions) |->
                    EmbeddingLookup(self.caption_embedding, captions[b])])
    IN  IF \E b \in 1..Len(captions) : rows[b].err # "none"
        THEN [err |-> "IndexError", rows |-> NoTensor]
        ELSE [err |-> "none", rows |-> Eager([b \in 1..Len(captions) |-> rows[b].rows])]

\* TransformerDecoder.get_data_embeddings; dropout site 1
get_data_embeddings(self, features, captions, train, g) ==
    LET feature_embedding == Eager([b \in 1..Len(features) |->
                                 Linear(self.feature_embedding, features[b])])
        looked == CaptionLookup(self, captions)
        caption_embedding == IF looked.err # "none" THEN looked
                             ELSE PositionalEncoding_forward(self.positional_encoding,
                                                             looked.rows, train, g, 1)
    IN  IF caption_embedding.err # "none"
        THEN [err |-> caption_embedding.err, feature_embedding |-> NoTensor,
              caption_embedding |-> NoTensor]
        ELSE [err |-> "none",
              feature_embedding |-> Eager([b \in 1..Len(features) |->
                                              <<feature_embedding[b]>>]),
              caption_embedding |-> caption_embedding.output]

\* for layer in self.layers: output = layer(output, features_embed, mask=mask);
\* the calls of layers 1..n, each with its arguments and its output `out`
RECURSIVE RunDecoderLayers(_, _, _, _, _, _, _)
RunDecoderLayers(layers, n, x, cond, mask, train, g) ==
    IF n = 0 THEN <<>>
    ELSE LET prev == RunDecoderLayers(layers, n - 1, x, cond, mask, train, g)
             output == IF n = 1 THEN x ELSE prev[n - 1].out
         IN  Append(prev, DecoderLayer_steps(layers[n], output, cond, mask, train, g, 10 * n))

\* TransformerDecoder.forward from `scores = self.score_projection(output)` on;
\* hidden holds the calls of the layers
TransformerDecoder_project(self, features, captions, emb, mask, hidden) ==
    [op |-> "TransformerDecoder.forward", err |-> "none",
     features |-> features, captions |-> captions,
     features_embed |-> emb.feature_embedding, captions_embed |-> emb.caption_embedding,
     mask |-> mask, hidden |-> hidden,
     scores |-> Linear3(self.score_projection, hidden[Len(hidden)].out)]

\* TransformerDecoder.forward from `mask = self.get_causal_mask(...)` on; emb is the
\* outcome of get_data_embeddings
TransformerDecoder_decode(self, features, captions, emb, train, g) ==
    IF emb.err # "none"
    THEN [op |-> "TransformerDecoder.forward", err |-> emb.err,
          features |-> features, captions |-> captions,
          features_embed |-> NoTensor, captions_embed |-> NoTensor,
          mask |-> NoTensor, hidden |-> NoTensor, scores |-> NoTensor]
    ELSE LET mask == get_causal_mask(self, Len(emb.caption_embedding[1]))
         IN  TransformerDecoder_project(self, features, captions, emb, mask,
                 RunDecoderLayers(self.layers, Len(self.layers), emb.caption_embedding,
                                  emb.feature_embedding, mask, train, g))

\* TransformerDecoder.forward
TransformerDecoder_forward(self, features, captions, train, g) ==
    TransformerDecoder_decode(self, features, captions,
                              get_data_embeddings(self, features, captions, train, g),
                              train, g)

\* torch.argmax over one row of scores: the index (from 0) of the first maximal value
Argmax(v) ==
    LET m == MaxOf(v)
    IN  (CHOOSE i \in 1..Len(v) : v[i] = m /\ \A j \in 1..(i - 1) : v[j] < m) - 1

\* a loop body that starts to fill the captions at the second column
SetColumn_after_first(captions, t, word) ==
    IF t = 0 THEN captions
    ELSE [data |-> Eager([b \in 1..Len(captions.data) |->
                      [captions.data[b] EXCEPT ![t + 1] = word[b]]]),
          written |-> captions.written \cup {t}]

\* captions[:, t] = word; `written` collects the columns the loop has assigned
SetColumn(captions, t, word) ==
    [data |-> Eager([b \in 1..Len(captions.data) |->
                 [captions.data[b] EXCEPT ![t + 1] = word[b]]]),
     written |-> captions.written \cup {t}]

\* TransformerDecoder.sample: the locals before the loop; g is the generator state
SampleLocals(self, features, max_length, g) ==
    LET N == Len(features)
    IN  [t |-> 0, err |-> "none", g |-> g,
         captions |-> [data |-> Eager([b \in 1..N |-> [i \in 1..max_length |-> self.null]]),
                       written |-> {}],
         partial_caption |-> Eager([b \in 1..N |-> <<self.start>>]),
         calls |-> <<>>]

\* the record of one forward call made by the loop of sample: the step, the arguments
\* and outcome of the call, and the word chosen from it
SampleCall(t, out, word) ==
    [t |-> t, err |-> out.err, captions |-> out.captions, mask |-> out.mask,
     scores |-> out.scores, word |-> word]

\* a loop body that chooses the word from the scores of the first position
SampleUpdate_first_position(st, out, train) ==
    IF out.err # "none"
    THEN [st EXCEPT !.err = out.err, !.calls = Append(@, SampleCall(st.t, out, NoTensor))]
    ELSE LET N == Len(out.scores)
             output_logits == Eager([b \in 1..N |-> out.scores[b][1]])
             word == Eager([b \in 1..N |-> Argmax(output_logits[b])])
         IN  [t |-> st.t + 1, err |-> "none", g |-> RngAfter(train, st.g),
              captions |-> SetColumn(st.captions, st.t, word),
              partial_caption |-> Eager([b \in 1..N |->
                                      Append(st.partial_caption[b], word[b])]),
              calls |-> Append(st.calls, SampleCall(st.t, out, word))]

\* TransformerDecoder.sample: the body of the loop after the forward call returned `out`;
\* `calls` collects the forward calls the loop has made
SampleUpdate(st, out, train) ==
    IF out.err # "none"
    THEN [st EXCEPT !.err = out.err, !.calls = Append(@, SampleCall(st.t, out, NoTensor))]
    ELSE LET N == Len(out.scores)
             output_logits == Eager([b \in 1..N |-> out.scores[b][Len(out.scores[b])]])
             word == Eager([b \in 1..N |-> Argmax(output_logits[b])])
         IN  [t |-> st.t + 1, err |-> "none", g |-> RngAfter(train, st.g),
              captions |-> SetColumn(st.captions, st.t, word),
              partial_caption |-> Eager([b \in 1..N |->
                                      Append(st.partial_caption[b], word[b])]),
              calls |-> Append(st.calls, SampleCall(st.t, out, word))]

\* TransformerDecoder.sample: the body of `for t in range(max_length)`
SampleIteration(self, features, st, train) ==
    SampleUpdate(st, TransformerDecoder_forward(self, features, st.partial_caption,
                                                train, st.g), train)

\* TransformerDecoder.sample: the loop from the locals st on
RECURSIVE SampleLoop(_, _, _, _, _)
SampleLoop(self, features, max_length, st, train) ==
    IF st.t >= max_length \/ st.err # "none" THEN st
    ELSE SampleLoop(self, features, max_length,
                    SampleIteration(self, features, st, train), train)

\* the outcome of sample when its loop ended with the locals st; g is the generator state
\* the call leaves behind
SampleOutcome(features, max_length, st) ==
    [op |-> "TransformerDecoder.sample", err |-> st.err,
     features |-> features, max_length |-> max_length,
     captions |-> IF st.err = "none" THEN st.captions.data ELSE NoTensor,
     written |-> st.captions.written, calls |-> st.calls, g |-> st.g]

\* TransformerDecoder.sample
TransformerDecoder_sample(self, features, max_length, train, g) ==
    SampleOutcome(features, max_length,
                  SampleLoop(self, features, max_length,
                             SampleLocals(self, features, max_length, g), train))

----------------------------------------------------------------------------
(* Operations on a TransformerDecoder *)

\* longest caption the decoder is constructed for (max_length of __init__)
MaxCaptionLen == 3

\* the vocabulary
Vocabulary == ("<NULL>" :> 0) @@ ("<START>" :> 1) @@ ("a" :> 2) @@ ("<END>" :> 3)

\* input_dim, embed_dim and num_heads of the decoders constructed
DecoderDims == [input_dim |-> 2, embed_dim |-> 4, num_heads |-> 2]
\* num_layers of the decoders constructed
NumLayers == {1}

\* image features of shape (N, input_dim)
FeatureBatch(pat, N) ==
    Eager([b \in 1..N |-> [c \in 1..DecoderDims.input_dim |->
        Draw(19 * pat + (b - 1) * DecoderDims.input_dim + c)]])

\* caption tokens of shape (N, T) over a vocabulary of V words
CaptionBatch(pat, N, T, V) ==
    Eager([b \in 1..N |-> [t \in 1..T |-> (Draw(13 * pat + (b - 1) * T + t) + 2) % V]])

\* the caption rows of length T that start with <START> and go on with the two words
\* after it in the vocabulary
CaptionRows(self, T) ==
    {<<self.start>> \o [t \in 1..(T - 1) |-> self.start + tok[t]] :
        tok \in [1..(T - 1) -> {1, 2}]}

\* caption tokens of shape (N, T): the drawn batch, and batches that repeat one row
CaptionBatches(self, N, T) ==
    {CaptionBatch(T, N, T, self.vocab_size)}
        \cup {[b \in 1..N |-> row] : row \in CaptionRows(self, T)}

\* the feature batches passed to forward and sample
FeatureBatches == {FeatureBatch(1, 1), FeatureBatch(2, 2)}

\* the (features, max_length) arguments of sample
SampleInputs ==
    [features : FeatureBatches, max_length : 0..(MaxCaptionLen + 1)]

\* the input whose results are compared across calls
ProbeInputs == {i \in SampleInputs : i.max_length = MaxCaptionLen}

\* model.get_causal_mask(_len)
CallGetCausalMask ==
    /\ Idle
    /\ layer.kind = "decoder"
    /\ \E len \in 1..(MaxCaptionLen + 1) :
          ret' = [op |-> "TransformerDecoder.get_causal_mask", err |-> "none",
                  len |-> len, mask |-> get_causal_mask(layer, len)]
    /\ UNCHANGED <<probe, memo, layer, training, rng>>

\* model(features, captions)
CallForward ==
    /\ Idle
    /\ layer.kind = "decoder"
    /\ \E features \in FeatureBatches, T \in 1..(MaxCaptionLen + 1) :
          ret' = TransformerDecoder_forward(layer, features,
                     CaptionBatch(T, Len(features), T, layer.vocab_size), training, rng)
    /\ rng' = IF ret'.err = "none" THEN RngAfter(training, rng) ELSE rng
    /\ UNCHANGED <<probe, memo, layer, training>>

\* model(features, captions) on captions that start with <START> and share prefixes
CallForwardOnCaptions ==
    /\ Idle
    /\ layer.kind = "decoder"
    /\ \E features \in FeatureBatches, T \in 1..MaxCaptionLen :
       \E captions \in CaptionBatches(layer, Len(features), T) :
          ret' = TransformerDecoder_forward(layer, features, captions, training, rng)
    /\ rng' = IF ret'.err = "none" THEN RngAfter(training, rng) ELSE rng
    /\ UNCHANGED <<probe, memo, layer, training>>

\* the return of model.sample(features, max_length) with the outcome r; the first result
\* for the probe input in each mode is kept in memo
ReturnSample(inp, r) ==
    /\ ret' = [op |-> r.op, err |-> r.err, features |-> r.features,
               max_length |-> r.max_length, captions |-> r.captions,
               written |-> r.written, calls |-> r.calls]
    /\ rng' = r.g
    /\ memo' = IF inp = probe /\ r.err = "none" /\ memo[training] = NoMemo
               THEN [memo EXCEPT ![training] = [captions |-> r.captions, g |-> rng]]
               ELSE memo

\* model.sample(features, max_length)
CallSample ==
    /\ Idle
    /\ layer.kind = "decoder"
    /\ \E inp \in SampleInputs :
          ReturnSample(inp, TransformerDecoder_sample(layer, inp.features, inp.max_length,
                                                      training, rng))
    /\ UNCHANGED <<probe, layer, training>>

\* the state after model = TransformerDecoder(Vocabulary, input_dim, embed_dim, num_heads,
\* num_layers, max_length): a new nn.Module is in train mode
InitDecoder ==
    /\ layer \in {TransformerDecoder_init(Vocabulary, DecoderDims.input_dim,
                                          DecoderDims.embed_dim, DecoderDims.num_heads,
                                          num_layers, MaxCaptionLen, seed) :
                     num_layers \in NumLayers, seed \in InitSeeds}
    /\ training = TRUE
    /\ rng = 0
    /\ ret = NoOutcome
    /\ probe \in ProbeInputs
    /\ memo = [mode \in BOOLEAN |-> NoMemo]

NextDecoder ==
    \/ Train
    \/ Eval
    \/ CallGetCausalMask
    \/ CallForward
    \/ CallSample
    \/ ReturnToCaller

SpecDecoder == InitDecoder /\ [][NextDecoder]_vars

----------------------------------------------------------------------------
(* Properties of the TransformerDecoder *)

\* C1: for every length L >= 1, get_causal_mask(L) is an L x L matrix of 0/1 entries whose
\* entry (i,j) is 1 exactly when j <= i; so entry (0,0) is 1 and, for L >= 2, entry (0,1)
\* is 0 (rows and columns are numbered from 1 here).
C1_CausalMaskLowerTriangular ==
    ret.op = "TransformerDecoder.get_causal_mask" =>
        /\ ret.len >= 1
        /\ Len(ret.mask) = ret.len
        /\ \A i \in 1..ret.len :
              /\ Len(ret.mask[i]) = ret.len
              /\ \A j \in 1..ret.len : ret.mask[i][j] = (IF j <= i THEN 1 ELSE 0)
        /\ ret.mask[1][1] = 1
        /\ ret.len >= 2 => ret.mask[1][2] = 0

C1_Witness ==
    /\ ret.op = "TransformerDecoder.get_causal_mask"
    /\ ret.len = MaxCaptionLen + 1
    /\ ret.mask[ret.len][1] = 1

IsSampleReturn == ret.op = "TransformerDecoder.sample" /\ ret.err = "none"

\* C3: whenever sample(features, max_length) returns for a batch of N, the result is an
\* (N, max_length) array, the loop has assigned every column 0 .. max_length-1, and every
\* value is a vocabulary id in [0, V).
C3_SampleFillsEveryPosition ==
    IsSampleReturn =>
        /\ Len(ret.captions) = Len(ret.features)
        /\ \A b \in 1..Len(ret.captions) :
              /\ Len(ret.captions[b]) = ret.max_length
              /\ \A t \in 1..ret.max_length : ret.captions[b][t] \in 0..(layer.vocab_size - 1)
        /\ ret.written = 0..(ret.max_length - 1)

C3_Witness ==
    /\ IsSampleReturn
    /\ Len(ret.features) = 2
    /\ ret.max_length = MaxCaptionLen
    /\ \E b \in 1..2 : \E t \in 1..ret.max_length : ret.captions[b][t] # layer.null

IsProbeReturn ==
    /\ IsSampleReturn
    /\ [features |-> ret.features, max_length |-> ret.max_length] = probe

\* C4 as stated: a call of sample returns what the first call with the same features and
\* max_length returned, whatever sample and forward calls were made in between.
C4_SampleIndependentOfCallOrder ==
    IsProbeReturn => ret.captions = memo[training].captions

\* C4: with the model in eval mode, a call of sample returns what the first eval-mode call
\* with the same features and max_length returned, whatever sample and forward calls were
\* made in between.
C4_SampleRepeatableInEvalMode ==
    (IsProbeReturn /\ ~training) => ret.captions = memo[FALSE].captions

\* an eval-mode call on the probe input at a generator state other than the one the first
\* eval-mode call started from: train-mode calls were made in between
C4_Witness ==
    /\ IsProbeReturn
    /\ ~training
    /\ memo[FALSE].g # rng
    /\ memo[TRUE] # NoMemo
    /\ memo[TRUE].captions # ret.captions

\* C12: sample(features, max_length) is a sequential loop.  Its t-th forward call (t from 0)
\* is passed the START id followed by the words chosen at steps 0..t-1 (length t+1) and uses
\* the causal mask of size (t+1) x (t+1); the word of step t is the argmax of the scores of
\* the last position of that call and is what the returned captions hold at position t.
\* A call that returns has made exactly max_length forward calls, the longest on a sequence
\* of length max_length; a call that raises made fewer, and raised in the forward call whose
\* sequence was one longer than the positional-encoding table.
C12_SampleIsSequentialLoop ==
    ret.op = "TransformerDecoder.sample" =>
        LET N == Len(ret.features)
            calls == ret.calls
        IN  /\ ret.err = "none" =>
                  /\ Len(calls) = ret.max_length
                  /\ ret.max_length >= 1 =>
                        Len(calls[Len(calls)].captions[1]) = ret.max_length
            /\ ret.err # "none" =>
                  /\ Len(calls) = layer.max_len + 1
                  /\ Len(calls) <= ret.max_length
                  /\ calls[Len(calls)].err = ret.err
            /\ \A i \in 1..Len(calls) :
                  /\ calls[i].t = i - 1
                  /\ Len(calls[i].captions) = N
                  /\ calls[i].err = "none" <=> (i < Len(calls) \/ ret.err = "none")
                  /\ \A b \in 1..N :
                        /\ Len(calls[i].captions[b]) = i
                        /\ calls[i].captions[b] =
                              <<layer.start>> \o [k \in 1..(i - 1) |-> calls[k].word[b]]
                        /\ calls[i].err = "none" =>
                              /\ Len(calls[i].scores[b]) = i
                              /\ calls[i].word[b] = Argmax(calls[i].scores[b][i])
                              /\ ret.err = "none" => ret.captions[b][i] = calls[i].word[b]
                  /\ calls[i].err = "none" =>
                        calls[i].mask = [r \in 1..i |-> [j \in 1..i |->
                                            IF j <= r THEN 1 ELSE 0]]

\* C12 witness: a call with max_length = MaxCaptionLen returned after choosing different
\* words at two steps, the last from a forward call whose first and last positions have
\* different best words
C12_Witness ==
    /\ IsSampleReturn
    /\ ret.max_length = MaxCaptionLen
    /\ Len(ret.calls) = MaxCaptionLen
    /\ \E i \in 1..(MaxCaptionLen - 1) : ret.calls[i].word # ret.calls[i + 1].word
    /\ \E b \in 1..Len(ret.features) :
          Argmax(ret.calls[MaxCaptionLen].scores[b][1])
              # Argmax(ret.calls[MaxCaptionLen].scores[b][MaxCaptionLen])

----------------------------------------------------------------------------
(* EncoderLayer and ViT (vit_classification/vit.py) *)

\* EncoderLayer.__init__ followed by _init_weights
EncoderLayer_init(d_model, num_heads, d_ff, seed) ==
    [self_attention |-> SelfAttentionBlock_init(d_model, num_heads, seed),
     feed_forward |-> FeedForwardBlock_init(d_model, d_ff, seed + 2)]

\* EncoderLayer.forward, line 23: the feed-forward block on the output of the block
\* applied before it
EncoderLayer_feedforward(self, seq, mask, first, train, g, site) ==
    [seq |-> seq, mask |-> mask, first |-> first, ffn_seq |-> first.x,
     out |-> FeedForwardBlock_forward(self.feed_forward, first.x, train, g, site + 3)]

\* EncoderLayer.forward with the outcome of each of its blocks; its dropout calls are the
\* sites site+1 .. site+4
EncoderLayer_steps(self, seq, mask, train, g, site) ==
    EncoderLayer_feedforward(self, seq, mask,
        SelfAttentionBlock_steps(self.self_attention, seq, mask, train, g, site + 1),
        train, g, site)

\* EncoderLayer.forward
EncoderLayer_forward(self, seq, mask, train, g, site) ==
    EncoderLayer_steps(self, seq, mask, train, g, site).out

\* rows of the positional-encoding table of a ViT (5000 in the code)
ViTMaxLen == 6

\* ViT.__init__
ViT_init(patch_dim, d_model, d_ff, num_heads, num_layers, num_patches, num_classes, seed) ==
    [kind |-> "vit",
     patch_dim |-> patch_dim, d_model |-> d_model, d_ff |-> d_ff, num_heads |-> num_heads,
     num_layers |-> num_layers, num_patches |-> num_patches, num_classes |-> num_classes,
     patch_embedding |-> init_weights_Linear(
                             LinearInit(seed, 8, d_model, patch_dim * patch_dim * 3)),
     positional_encoding |-> PositionalEncoding_init(d_model, ViTMaxLen, seed + 1),
     fc |-> init_weights_Linear(LinearInit(seed, 9, num_classes, d_model)),
     cls_token |-> Eager(<<<<[c \in 1..d_model |-> Draw(37 * seed + c)]>>>>),
     layers |-> Eager([l \in 1..num_layers |->
                           EncoderLayer_init(d_model, num_heads, d_ff, seed + 3 * l)])]

\* Tensor.unfold(dimension=2, size, step) of an (N,C,H,W) tensor: (N,C,nv,W,size)
Unfold2(x, size, step) ==
    LET H == Len(x[1][1])
        W == Len(x[1][1][1])
        nv == ((H - size) \div step) + 1
    IN  Eager([n \in 1..Len(x) |-> [c \in 1..Len(x[n]) |-> [i \in 1..nv |-> [w \in 1..W |->
            [dy \in 1..size |-> x[n][c][(i - 1) * step + dy][w]]]]]])

\* Tensor.unfold(dimension=3, size, step) of an (N,C,nv,W,p) tensor: (N,C,nv,nh,p,size)
Unfold3(y, size, step) ==
    LET W == Len(y[1][1][1])
        nh == ((W - size) \div step) + 1
    IN  Eager([n \in 1..Len(y) |-> [c \in 1..Len(y[n]) |-> [i \in 1..Len(y[n][c]) |->
            [j \in 1..nh |-> [dy \in 1..Len(y[n][c][i][1]) |-> [dx \in 1..size |->
                y[n][c][i][(j - 1) * step + dx][dy]]]]]]])

\* Tensor.permute(0, 2, 3, 1, 4, 5) of an (N,C,nv,nh,p,p) tensor: (N,nv,nh,C,p,p)
Permute023145(z) ==
    Eager([n \in 1..Len(z) |-> [i \in 1..Len(z[n][1]) |-> [j \in 1..Len(z[n][1][1]) |->
        [c \in 1..Len(z[n]) |-> z[n][c][i][j]]]]])

\* the elements of a rank-6 tensor in row-major order
Flatten6(z) ==
    LET d1 == Len(z)
        d2 == Len(z[1])
        d3 == Len(z[1][1])
        d4 == Len(z[1][1][1])
        d5 == Len(z[1][1][1][1])
        d6 == Len(z[1][1][1][1][1])
    IN  Eager([f \in 1..(d1 * d2 * d3 * d4 * d5 * d6) |->
            z[((f - 1) \div (d2 * d3 * d4 * d5 * d6)) + 1]
             [(((f - 1) \div (d3 * d4 * d5 * d6)) % d2) + 1]
             [(((f - 1) \div (d4 * d5 * d6)) % d3) + 1]
             [(((f - 1) \div (d5 * d6)) % d4) + 1]
             [(((f - 1) \div d6) % d5) + 1]
             [((f - 1) % d6) + 1]])

\* Tensor.reshape(N, -1, F) of a rank-6 tensor
Reshape3(z, N, F) ==
    LET flat == Flatten6(z)
        K == Len(flat) \div (N * F)
    IN  View3(flat, N, K, F)

\* ViT.patchify
ViT_patchify(self, images) ==
    LET N == Len(images)
        C == Len(images[1])
        unfolded == Unfold3(Unfold2(images, self.patch_dim, self.patch_dim),
                            self.patch_dim, self.patch_dim)
        permuted == Permute023145(unfolded)
        patches == Reshape3(unfolded, N, self.patch_dim * self.patch_dim * C)
    IN  [op |-> "ViT.patchify", err |-> "none", images |-> images, patches |-> patches]

\* for layer in self.layers: output = layer(output, mask); the calls of layers 1..n, each
\* with its arguments and its output `out`
RECURSIVE RunEncoderLayers(_, _, _, _, _, _)
RunEncoderLayers(layers, n, x, mask, train, g) ==
    IF n = 0 THEN <<>>
    ELSE LET prev == RunEncoderLayers(layers, n - 1, x, mask, train, g)
             output == IF n = 1 THEN x ELSE prev[n - 1].out
         IN  Append(prev, EncoderLayer_steps(layers[n], output, mask, train, g, 10 * n))

\* ViT.forward from `cls_embedding = output[:, 0, :]` on; hidden holds the calls of
\* the layers
ViT_classify(self, images, patches_embedded, cls_token_repeat, sequence, encoded, hidden) ==
    LET N == Len(encoded)
        output == IF Len(hidden) = 0 THEN encoded ELSE hidden[Len(hidden)].out
        cls_embedding == Eager([b \in 1..N |-> output[b][1]])
    IN  [op |-> "ViT.forward", err |-> "none", images |-> images,
         patches_embedded |-> patches_embedded, cls_token_repeat |-> cls_token_repeat,
         sequence |-> sequence, encoded |-> encoded, hidden |-> hidden, output |-> output,
         cls_embedding |-> cls_embedding,
         logits |-> Eager([b \in 1..N |-> Linear(self.fc, cls_embedding[b])])]

\* ViT.forward from `mask = torch.ones(...)` on; `sequence` is the tensor that was passed to
\* self.positional_encoding and `encoded` the tensor it returned
ViT_encode(self, images, patches_embedded, cls_token_repeat, sequence, encoded, train, g) ==
    ViT_classify(self, images, patches_embedded, cls_token_repeat, sequence, encoded,
                 RunEncoderLayers(self.layers, Len(self.layers), encoded,
                                  Ones(self.num_patches, self.num_patches), train, g))

\* ViT.forward from the CLS token on (lines 111-114): the concatenation `output0` of the
\* CLS token and the patch embeddings is overwritten by the positional encoding of the
\* patch embeddings alone
ViT_embed(self, images, patches_embedded, train, g) ==
    LET N == Len(patches_embedded)
        cls_token_repeat == Eager([b \in 1..N |-> self.cls_token[1]])
        output0 == Eager([b \in 1..N |-> cls_token_repeat[b] \o patches_embedded[b]])
        sequence == patches_embedded
    IN  ViT_encode(self, images, patches_embedded, cls_token_repeat, sequence,
                   PositionalEncoding_forward(self.positional_encoding, sequence,
                                              train, g, 1).output,
                   train, g)

\* ViT.forward
ViT_forward(self, images, train, g) ==
    ViT_embed(self, images,
              Linear3(self.patch_embedding, ViT_patchify(self, images).patches), train, g)

----------------------------------------------------------------------------
(* Operations on a ViT *)

\* (H, W) of the images
ImageSizes == {<<2, 2>>, <<4, 4>>, <<3, 4>>}

\* an image batch (N,3,H,W) whose pixels all differ
RampImage(N, H, W) ==
    Eager([n \in 1..N |-> [c \in 1..3 |-> [h \in 1..H |-> [w \in 1..W |->
        (((n - 1) * 3 + (c - 1)) * H + (h - 1)) * W + (w - 1)]]]])

\* an image batch (N,3,H,W) drawn from the table
DrawnImage(pat, N, H, W) ==
    Eager([n \in 1..N |-> [c \in 1..3 |-> [h \in 1..H |-> [w \in 1..W |->
        Draw(41 * pat + (((n - 1) * 3 + (c - 1)) * H + (h - 1)) * W + w)]]]])

\* the image batches of size H x W
ImageBatches(H, W) == {DrawnImage(pat, N, H, W) : pat \in Patterns, N \in BatchSizes}

\* number of whole patches of side p in an H x W image
PatchCount(p, H, W) == (H \div p) * (W \div p)

\* the (patch_dim, image size) pairs the ViTs are constructed for
ViTConfigs == {<<2, <<4, 4>>>>, <<1, <<2, 2>>>>, <<2, <<2, 2>>>>}

\* model.patchify(images)
CallPatchify ==
    /\ Idle
    /\ layer.kind = "vit"
    /\ \E size \in ImageSizes :
          /\ size[1] >= layer.patch_dim /\ size[2] >= layer.patch_dim
          /\ \E images \in ImageBatches(size[1], size[2])
                           \cup {RampImage(N, size[1], size[2]) : N \in BatchSizes} :
                ret' = ViT_patchify(layer, images)
    /\ UNCHANGED <<probe, memo, layer, training, rng>>

\* model(images), on images with num_patches patches
CallViT ==
    /\ Idle
    /\ layer.kind = "vit"
    /\ \E size \in ImageSizes :
          /\ size[1] >= layer.patch_dim /\ size[2] >= layer.patch_dim
          /\ PatchCount(layer.patch_dim, size[1], size[2]) = layer.num_patches
          /\ \E images \in ImageBatches(size[1], size[2]) :
                /\ ret' = ViT_forward(layer, images, training, rng)
                /\ rng' = RngAfter(training, rng)
    /\ UNCHANGED <<probe, memo, layer, training>>

\* the state after model = ViT(patch_dim, d_model, d_ff, num_heads, num_layers, num_patches,
\* num_classes): a new nn.Module is in train mode
InitViT ==
    /\ layer \in {ViT_init(cfg[1], 4, 4, 2, 1, PatchCount(cfg[1], cfg[2][1], cfg[2][2]),
                           3, seed) : cfg \in ViTConfigs, seed \in InitSeeds}
    /\ training = TRUE
    /\ rng = 0
    /\ ret = NoOutcome
    /\ probe = NoProbe
    /\ memo = NoMemo

NextViT ==
    \/ Train
    \/ Eval
    \/ CallPatchify
    \/ CallViT
    \/ ReturnToCaller

SpecViT == InitViT /\ [][NextViT]_vars

----------------------------------------------------------------------------
(* Stacked models: decoders and ViTs of one and two layers, and their forward passes *)

\* num_layers of the stacked models
StackDepths == {1, 2}

\* the parameter families the stacked models are constructed with
StackSeeds == {1, 3}

\* the state after constructing a TransformerDecoder or a ViT with num_layers layers
InitStacks ==
    /\ layer \in {TransformerDecoder_init(Vocabulary, DecoderDims.input_dim,
                                          DecoderDims.embed_dim, DecoderDims.num_heads,
                                          num_layers, MaxCaptionLen, seed) :
                     num_layers \in StackDepths, seed \in StackSeeds}
                \cup {ViT_init(1, 4, 4, 2, num_layers, PatchCount(1, 2, 2), 3, seed) :
                         num_layers \in StackDepths, seed \in StackSeeds}
    /\ training = TRUE
    /\ rng = 0
    /\ ret = NoOutcome
    /\ probe = NoProbe
    /\ memo = NoMemo

NextStacks ==
    \/ Train
    \/ Eval
    \/ CallForward
    \/ CallForwardOnCaptions
    \/ CallViT
    \/ ReturnToCaller

SpecStacks == InitStacks /\ [][NextStacks]_vars

----------------------------------------------------------------------------
(* Properties of the stacked models, checked under SpecStacks *)

\* the attention call `a` returned and was a self-attention over seq with the mask
SelfAttentionCallOn(a, seq, mask) ==
    /\ a.op = "MultiHeadAttentionLayer.forward" /\ a.err = "none"
    /\ a.query = seq /\ a.key = seq /\ a.value = seq
    /\ a.attn_mask = mask

\* the attention call `a` returned and was a cross-attention from seq to cond with no mask
CrossAttentionCallOn(a, seq, cond) ==
    /\ a.op = "MultiHeadAttentionLayer.forward" /\ a.err = "none"
    /\ a.query = seq /\ a.key = cond /\ a.value = cond
    /\ a.attn_mask = NoMask

\* the input of the n-th layer of a stack whose first layer was given x
LayerInput(hidden, n, x) == IF n = 1 THEN x ELSE hidden[n - 1].out

\* C13: in TransformerDecoder.forward every layer is given the output of the layer before
\* it (the first the embedded captions), the same conditioning and the same mask; a
\* DecoderLayer runs self-attention with query = key = value = its input and the mask, then
\* cross-attention with query = the self-attention block's output, key = value = the
\* conditioning and no mask, then the feed-forward block on the cross-attention block's
\* output.  In ViT.forward every layer is given the output of the layer before it and the
\* same mask; an EncoderLayer runs self-attention on its input, then the feed-forward block
\* on the result.  Every block returns the (N,S,D) shape of the layer's input.
C13_LayersComposeSequentially ==
    /\ (ret.op = "TransformerDecoder.forward" /\ ret.err = "none") =>
          /\ Len(ret.hidden) = Len(layer.layers)
          /\ \A n \in 1..Len(ret.hidden) :
                LET h == ret.hidden[n]
                    this == layer.layers[n]
                    input == LayerInput(ret.hidden, n, ret.captions_embed)
                IN  /\ h.seq = input
                    /\ h.cond = ret.features_embed
                    /\ h.mask = ret.mask
                    /\ SelfAttentionCallOn(h.first.attn, input, ret.mask)
                    /\ CrossAttentionCallOn(h.second.attn, h.first.x, ret.features_embed)
                    /\ h.ffn_seq = h.second.x
                    /\ Shape3(h.first.x) = Shape3(ret.captions_embed)
                    /\ Shape3(h.second.x) = Shape3(ret.captions_embed)
                    /\ Shape3(h.out) = Shape3(ret.captions_embed)
                    /\ ~training =>
                          /\ h.first.x = SelfAttentionBlock_forward(this.self_atn_block,
                                             input, ret.mask, FALSE, rng, 0)
                          /\ h.second.x = CrossAttentionBlock_forward(this.cross_atn_block,
                                              h.first.x, ret.features_embed, FALSE, rng, 0)
                          /\ h.out = FeedForwardBlock_forward(this.feedforward_block,
                                         h.second.x, FALSE, rng, 0)
    /\ ret.op = "ViT.forward" =>
          /\ Len(ret.hidden) = Len(layer.layers)
          /\ \A n \in 1..Len(ret.hidden) :
                LET h == ret.hidden[n]
                    this == layer.layers[n]
                    input == LayerInput(ret.hidden, n, ret.encoded)
                IN  /\ h.seq = input
                    /\ h.mask = Ones(layer.num_patches, layer.num_patches)
                    /\ SelfAttentionCallOn(h.first.attn, input, h.mask)
                    /\ h.ffn_seq = h.first.x
                    /\ Shape3(h.first.x) = Shape3(ret.encoded)
                    /\ Shape3(h.out) = Shape3(ret.encoded)
                    /\ ~training =>
                          /\ h.first.x = SelfAttentionBlock_forward(this.self_attention,
                                             input, h.mask, FALSE, rng, 0)
                          /\ h.out = FeedForwardBlock_forward(this.feed_forward,
                                         h.first.x, FALSE, rng, 0)

\* C13 witness: a two-layer decoder returned from a forward pass over a batch of two
\* captions of two tokens, in which every block changed the sequence it was given
C13_Witness ==
    /\ ret.op = "TransformerDecoder.forward" /\ ret.err = "none"
    /\ Len(layer.layers) = 2
    /\ Shape3(ret.captions_embed) = <<2, 2, DecoderDims.embed_dim>>
    /\ \A n \in 1..2 :
          /\ ret.hidden[n].first.x # ret.hidden[n].seq
          /\ ret.hidden[n].second.x # ret.hidden[n].first.x
          /\ ret.hidden[n].out # ret.hidden[n].second.x
    /\ ret.hidden[2].seq = ret.hidden[1].out

\* the number of leading positions on which the (N,T) token batches a and b agree
CommonPrefix(a, b) ==
    LET T == Len(a[1])
        agree == {i \in 0..T : \A n \in 1..Len(a), j \in 1..i : a[n][j] = b[n][j]}
    IN  CHOOSE i \in agree : \A k \in agree : k <= i

\* the first p positions of every batch element of x
Prefix(x, p) == [n \in 1..Len(x) |-> SubSeq(x[n], 1, p)]

IsEvalForwardReturn ==
    ret.op = "TransformerDecoder.forward" /\ ret.err = "none" /\ ~training

\* C14: in eval mode, when forward has returned scores for (features, captions), then for
\* every caption batch of the same shape, forward on the same features returns the same
\* scores at all the leading positions on which the two caption batches agree: the scores
\* at position i do not depend on the tokens after position i, for decoders of one and of
\* two layers.
C14_ForwardIsCausal ==
    IsEvalForwardReturn =>
        \A other \in CaptionBatches(layer, Len(ret.captions), Len(ret.captions[1])) :
            Prefix(TransformerDecoder_forward(layer, ret.features, other, FALSE, rng).scores,
                   CommonPrefix(ret.captions, other))
                = Prefix(ret.scores, CommonPrefix(ret.captions, other))

\* C14 witness: a two-layer decoder returned the scores of captions of MaxCaptionLen
\* tokens, and another caption batch differs from it in the last token only and gets
\* different scores (at the last position, the only one not in the common prefix)
C14_Witness ==
    /\ IsEvalForwardReturn
    /\ Len(layer.layers) = 2
    /\ Len(ret.captions[1]) = MaxCaptionLen
    /\ \E other \in CaptionBatches(layer, Len(ret.captions), MaxCaptionLen) :
          /\ CommonPrefix(ret.captions, other) = MaxCaptionLen - 1
          /\ TransformerDecoder_forward(layer, ret.features, other, FALSE, rng).scores
                # ret.scores

----------------------------------------------------------------------------
(* Properties of the ViT *)

\* C2: on an (N,3,H,W) image with H and W divisible by patch_dim p, patchify returns
\* (N, (H/p)*(W/p), p*p*3) patches, and the patch at grid cell (r,c) holds at flattened index
\* ch*p*p + dy*p + dx the pixel image[ch, r*p+dy, c*p+dx].
C2_PatchifyContiguousBlocks ==
    LET p == layer.patch_dim
        N == Len(ret.images)
        H == Len(ret.images[1][1])
        W == Len(ret.images[1][1][1])
    IN  (ret.op = "ViT.patchify" /\ H % p = 0 /\ W % p = 0) =>
            /\ Len(ret.patches) = N
            /\ \A n \in 1..N :
                  /\ Len(ret.patches[n]) = (H \div p) * (W \div p)
                  /\ \A r \in 0..((H \div p) - 1), c \in 0..((W \div p) - 1) :
                        LET patch == ret.patches[n][r * (W \div p) + c + 1]
                        IN  /\ Len(patch) = p * p * 3
                            /\ \A ch \in 0..2, dy \in 0..(p - 1), dx \in 0..(p - 1) :
                                  patch[ch * p * p + dy * p + dx + 1]
                                      = ret.images[n][ch + 1][r * p + dy + 1][c * p + dx + 1]

\* C9: in ViT.forward the sequence given to positional encoding and the encoder layers is
\* the CLS token followed by the patch embeddings (length num_patches + 1), and the
\* embedding given to the classification layer is the output at position 0 of it.
C9_ClsTokenLeadsTheSequence ==
    ret.op = "ViT.forward" =>
        \A b \in 1..Len(ret.sequence) :
            /\ Len(ret.sequence[b]) = layer.num_patches + 1
            /\ ret.sequence[b] = ret.cls_token_repeat[b] \o ret.patches_embedded[b]
            /\ Len(ret.output[b]) = layer.num_patches + 1
            /\ ret.cls_embedding[b] = ret.output[b][1]

====
